---- MODULE Spec2Model ----
(***************************************************************************)
(* Recipient management of pkg/action/recipients.go: RecipientsAdd,        *)
(* RecipientsRemove and RecipientsUpdate as state machines.  The crypto    *)
(* backend, the store tree, the config and the terminal are the            *)
(* environment: every value they return is drawn with \E.                  *)
(***************************************************************************)
EXTENDS Integers, Sequences, FiniteSets, TLC

\* ------------------------------------------------------------------ bounds
\* longest argument list of one add / remove command
MaxCands == 2
\* longest key list one FindPublicKeys / FindPrivateKeys call returns
MaxMatches == 2

\* ------------------------------------------------------ environment values
\* what the operator types as a recipient id
Inputs == {"alice@example.com", "0xA1"}
\* key handles of the keyring, as FindPublicKeys returns them
Keys == {"0xA1", "0xB2"}
\* the id a selection or an argument can be
Candidates == Inputs \cup Keys

\* sequences over S of length lo..hi
SeqsOf(S, lo, hi) == UNION {[1..n -> S] : n \in lo..hi}

\* crypto.Fingerprint: the canonical fingerprint of a key of the keyring
KeyFingerprint(k) == IF k = "0xA1" THEN "FPR-A1" ELSE "FPR-B2"

\* crypto.Fingerprint as called: on a key handle it gives that key's
\* fingerprint; on a string that is no key handle the backend's answer is
\* not determined by this file (the string back, or nothing)
FingerprintResults(k) == IF k \in Keys THEN {KeyFingerprint(k)} ELSE {k, ""}

Fingerprints == {KeyFingerprint(k) : k \in Keys}

VARIABLES
    cmd,        \* the running command: "none", "add", "remove", "update"
    pc,         \* position inside the command
    force,      \* c.Bool("force")
    recipients, \* the candidate list the loop ranges over
    idx,        \* index of the current candidate (1-based)
    keys,       \* result of FindPublicKeys for the current candidate
    recp,       \* resolved value of the current candidate
    count,      \* added / removed
    stored,     \* recipient list of the target store
    notices,    \* removal warnings printed by this run
    log,        \* add, remove: what the current iteration did, in order: lookups, prompts,
                \* warnings, store calls, notices (kept until the next iteration starts);
                \* update: what the run did, in order
    result,     \* how the command returned: "", "ok", "ExitUnknown", "ExitRecipients",
                \* "ExitAborted", "error"
    mounts,     \* Store.MountPoints()
    nodes,      \* per alias: whether the sub store resolves, its recipient list, its recorded checksum
    order,      \* update: the aliases the loop ranges over
    fetched,    \* update: recp and err of the current node's GetRecipients
    start,      \* update: the recorded checksums when the run began
    prev,       \* update: what the run before this one offered, when it declined everything
    clock,      \* what time.Now() returns next
    threshold,  \* expiration audit: c.Duration("warn-threshold")
    hasErr,     \* expiration audit: a key warned
    rendered    \* expiration audit: the last call of renderExpirationNotice, with its result

\* state of the candidate loop of add and remove
mutVars == <<force, recipients, keys, recp, notices, stored>>

\* state of the reconcile walk
updVars == <<mounts, nodes, order, fetched, start, prev>>

\* state of the expiration audit
expVars == <<clock, threshold, hasErr, rendered>>

vars == <<cmd, pc, idx, count, log, result, mutVars, updVars, expVars>>

\* one entry of the run's log
Ev(op, i, v, ans) == [op |-> op, i |-> i, v |-> v, ans |-> ans]

\* renderExpirationNotice was not called yet
NoRender == [called |-> FALSE, i |-> 0, exp |-> 0, thr |-> 0, n1 |-> 0, n2 |-> 0, n3 |-> 0,
             notice |-> [kind |-> "", dur |-> 0, at |-> 0], warn |-> FALSE]

\* no previous run to compare with
NoPrev == [valid |-> FALSE, offered |-> {}, hashes |-> <<>>, count |-> 0]

\* no command runs, nothing was fetched
InitRun ==
    /\ cmd = "none"
    /\ pc = "idle"
    /\ force = FALSE
    /\ recipients = <<>>
    /\ idx = 1
    /\ keys = <<>>
    /\ recp = ""
    /\ count = 0
    /\ notices = 0
    /\ log = <<>>
    /\ result = ""
    /\ order = <<>>
    /\ fetched = [list |-> <<>>, err |-> "nil"]
    /\ start = <<>>
    /\ prev = NoPrev
    /\ threshold = 0
    /\ hasErr = FALSE
    /\ rendered = NoRender

\* add and remove: a store with no mounts and an empty recipient list
Init ==
    /\ InitRun
    /\ stored = {}
    /\ mounts = <<>>
    /\ nodes = <<>>
    /\ clock = 1

\* a command can start when none runs
CanStart == pc = "idle"

\* state at the top of the candidate loop
EnterLoop(c, f, rs) ==
    /\ cmd' = c
    /\ force' = f
    /\ recipients' = rs
    /\ idx' = 1
    /\ keys' = <<>>
    /\ recp' = ""
    /\ count' = 0
    /\ notices' = 0
    /\ log' = <<>>
    /\ result' = ""
    /\ pc' = "loop"
    /\ UNCHANGED stored
    /\ UNCHANGED updVars
    /\ UNCHANGED expVars

\* return before the loop with an error
ReturnEarly(c, f, res) ==
    /\ cmd' = c
    /\ force' = f
    /\ recipients' = <<>>
    /\ idx' = 1
    /\ keys' = <<>>
    /\ recp' = ""
    /\ count' = 0
    /\ notices' = 0
    /\ log' = <<>>
    /\ result' = res
    /\ pc' = "done"
    /\ UNCHANGED stored
    /\ UNCHANGED updVars
    /\ UNCHANGED expVars

\* RecipientsAdd called with explicit ids
AddStart ==
    /\ CanStart
    /\ \E f \in BOOLEAN, rs \in SeqsOf(Inputs, 1, MaxCands) : EnterLoop("add", f, rs)

\* recipientsSelectForAdd: no ids given, the operator picks one public key
AddSelect ==
    /\ CanStart
    /\ \E f \in BOOLEAN, kl \in SeqsOf(Keys, 0, MaxMatches) :
         IF Len(kl) < 1
         THEN EnterLoop("add", f, <<>>)
         ELSE \E act \in {"default", "show", "aborted"}, sel \in 1..Len(kl) :
                IF act \in {"default", "show"}
                THEN EnterLoop("add", f, <<kl[sel]>>)
                ELSE ReturnEarly("add", f, "ExitAborted")

\* what one key lookup can return: an error, or a list of key handles
LookupResults ==
    {[err |-> TRUE, keys |-> <<>>]} \cup [err : {FALSE}, keys : SeqsOf(Keys, 0, MaxMatches)]

\* the key list after the error branch: keys = []string{r} under force
KeysAfterLookup(r, res) == IF res.err THEN <<r>> ELSE res.keys

\* the lookup's second `continue` left out
LookupSkipsErrOnly(r, f, res) == res.err /\ ~f

\* the two `continue` of the lookup: an error without force, no key without force
LookupSkips(r, f, res) ==
    \/ res.err /\ ~f
    \/ Len(KeysAfterLookup(r, res)) < 1 /\ ~f

\* the last key instead of keys[0]
LastKey(ks) == ks[Len(ks)]

\* keys[0]
FirstKey(ks) == ks[1]

\* recp left at the id, never canonicalised
ResolveUnchecked(r, ks) == {r}

\* the values recp can take: the fingerprint of the first key, else the id itself
Resolve(r, ks) == IF Len(ks) > 0 THEN FingerprintResults(FirstKey(ks)) ELSE {r}

\* the comparison off by one
NoneMutatedOffByOne(n) == n < 0

\* added < 1, removed < 1
NoneMutated(n) == n < 1

\* the current candidate
Cand == recipients[idx]

\* `continue`, or the end of the loop body: on to the next candidate; keys and
\* recp keep the current iteration's values until the next one sets them
Continue ==
    /\ idx' = idx + 1
    /\ pc' = "loop"

\* Store.AddRecipient succeeded
StoreAdd(s, v) == s \cup {v}

\* Store.RemoveRecipient succeeded
StoreRemove(s, v) == s \ {v}

\* RecipientsAdd, one candidate: FindPublicKeys and the resolution to recp
AddLookup ==
    /\ cmd = "add" /\ pc = "loop" /\ idx <= Len(recipients)
    /\ \E res \in LookupResults :
         LET warned == IF res.err THEN <<Ev("warn-lookup", idx, Cand, FALSE)>> ELSE <<>>
         IN IF LookupSkips(Cand, force, res)
            THEN /\ log' = IF res.err THEN warned
                           ELSE <<Ev("warn-nokey", idx, Cand, FALSE)>>
                 /\ keys' = res.keys
                 /\ recp' = ""
                 /\ Continue
            ELSE /\ keys' = KeysAfterLookup(Cand, res)
                 /\ recp' \in Resolve(Cand, keys')
                 /\ log' = warned
                 /\ pc' = "confirm"
                 /\ UNCHANGED idx
    /\ UNCHANGED <<cmd, force, recipients, count, notices, stored, result>>
    /\ UNCHANGED updVars
    /\ UNCHANGED expVars

\* RecipientsAdd, one candidate: "Do you want to add ... as a recipient"
AddConfirm ==
    /\ cmd = "add" /\ pc = "confirm"
    /\ \E ans \in BOOLEAN :
         /\ log' = Append(log, Ev("confirm", idx, recp, ans))
         /\ IF ans
            THEN pc' = "commit" /\ UNCHANGED idx
            ELSE Continue
    /\ UNCHANGED <<cmd, force, recipients, keys, recp, count, notices, stored, result>>
    /\ UNCHANGED updVars
    /\ UNCHANGED expVars

\* a failed AddRecipient undoes the run: the store is emptied and the count reset
AddCommitRollback ==
    /\ cmd = "add" /\ pc = "commit"
    /\ \E ok \in BOOLEAN :
         /\ log' = Append(log, Ev("AddRecipient", idx, recp, ok))
         /\ IF ok
            THEN /\ stored' = StoreAdd(stored, recp)
                 /\ count' = count + 1
                 /\ Continue
                 /\ UNCHANGED result
            ELSE /\ result' = "ExitRecipients"
                 /\ pc' = "done"
                 /\ stored' = {}
                 /\ count' = 0
                 /\ UNCHANGED idx
    /\ UNCHANGED <<cmd, force, recipients, keys, recp, notices>>
    /\ UNCHANGED updVars
    /\ UNCHANGED expVars

\* a failed AddRecipient only skips the candidate
AddCommitContinues ==
    /\ cmd = "add" /\ pc = "commit"
    /\ \E ok \in BOOLEAN :
         /\ log' = Append(log, Ev("AddRecipient", idx, recp, ok))
         /\ stored' = IF ok THEN StoreAdd(stored, recp) ELSE stored
         /\ count' = IF ok THEN count + 1 ELSE count
         /\ Continue
         /\ UNCHANGED result
    /\ UNCHANGED <<cmd, force, recipients, keys, recp, notices>>
    /\ UNCHANGED updVars
    /\ UNCHANGED expVars

\* RecipientsAdd, one candidate: Store.AddRecipient and added++
AddCommit ==
    /\ cmd = "add" /\ pc = "commit"
    /\ \E ok \in BOOLEAN :
         /\ log' = Append(log, Ev("AddRecipient", idx, recp, ok))
         /\ IF ok
            THEN /\ stored' = StoreAdd(stored, recp)
                 /\ count' = count + 1
                 /\ Continue
                 /\ UNCHANGED result
            ELSE /\ result' = "ExitRecipients"
                 /\ pc' = "done"
                 /\ UNCHANGED <<stored, count, idx>>
    /\ UNCHANGED <<cmd, force, recipients, keys, recp, notices>>
    /\ UNCHANGED updVars
    /\ UNCHANGED expVars

\* RecipientsAdd after the loop
AddFinish ==
    /\ cmd = "add" /\ pc = "loop" /\ idx > Len(recipients)
    /\ IF NoneMutated(count)
       THEN result' = "ExitUnknown" /\ UNCHANGED log
       ELSE /\ result' = "ok"
            /\ log' = log \o <<Ev("completed", count, "", TRUE), Ev("sync-hint", count, "", TRUE)>>
    /\ pc' = "done"
    /\ UNCHANGED <<cmd, force, recipients, idx, keys, recp, count, notices, stored>>
    /\ UNCHANGED updVars
    /\ UNCHANGED expVars

\* RecipientsRemove called with explicit ids
RemoveStart ==
    /\ CanStart
    /\ \E f \in BOOLEAN, rs \in SeqsOf(Inputs, 1, MaxCands) : EnterLoop("remove", f, rs)

\* recipientsSelectForRemoval: no ids given, the operator picks one recipient of the store
RemoveSelect ==
    /\ CanStart
    /\ \E f \in BOOLEAN :
         IF stored = {}
         THEN EnterLoop("remove", f, <<>>)
         ELSE \E act \in {"default", "show", "aborted"}, id \in stored :
                IF act \in {"default", "show"}
                THEN EnterLoop("remove", f, <<id>>)
                ELSE ReturnEarly("remove", f, "ExitAborted")

\* the self-removal question asked after a failed private-key lookup too
RemoveSelfCheckOnErr ==
    /\ cmd = "remove" /\ pc = "loop" /\ idx <= Len(recipients)
    /\ \E res \in LookupResults :
         /\ log' = <<Ev("FindPrivateKeys", idx,
                         IF res.err THEN "err" ELSE IF Len(res.keys) > 0 THEN "some" ELSE "none",
                         ~res.err)>>
         /\ pc' = IF res.err \/ Len(res.keys) > 0 THEN "selfconfirm" ELSE "lookup"
    /\ keys' = <<>>
    /\ recp' = ""
    /\ UNCHANGED <<cmd, force, recipients, idx, count, notices, stored, result>>
    /\ UNCHANGED updVars
    /\ UNCHANGED expVars

\* RecipientsRemove, one candidate: FindPrivateKeys on the raw id
RemoveSelfCheck ==
    /\ cmd = "remove" /\ pc = "loop" /\ idx <= Len(recipients)
    /\ \E res \in LookupResults :
         /\ log' = <<Ev("FindPrivateKeys", idx,
                         IF res.err THEN "err" ELSE IF Len(res.keys) > 0 THEN "some" ELSE "none",
                         ~res.err)>>
         /\ pc' = IF ~res.err /\ Len(res.keys) > 0 THEN "selfconfirm" ELSE "lookup"
    /\ keys' = <<>>
    /\ recp' = ""
    /\ UNCHANGED <<cmd, force, recipients, idx, count, notices, stored, result>>
    /\ UNCHANGED updVars
    /\ UNCHANGED expVars

\* RecipientsRemove, one candidate: "Do you want to remove yourself"
RemoveSelfConfirm ==
    /\ cmd = "remove" /\ pc = "selfconfirm"
    /\ \E ans \in BOOLEAN :
         /\ log' = Append(log, Ev("selfconfirm", idx, Cand, ans))
         /\ IF ans
            THEN pc' = "lookup" /\ UNCHANGED idx
            ELSE Continue
    /\ UNCHANGED <<cmd, force, recipients, keys, recp, count, notices, stored, result>>
    /\ UNCHANGED updVars
    /\ UNCHANGED expVars

\* RecipientsRemove, one candidate: FindPublicKeys and the resolution to recp
RemoveLookup ==
    /\ cmd = "remove" /\ pc = "lookup"
    /\ \E res \in LookupResults :
         LET warned == IF res.err THEN Append(log, Ev("warn-lookup", idx, Cand, FALSE)) ELSE log
         IN IF LookupSkips(Cand, force, res)
            THEN /\ log' = IF res.err THEN warned
                           ELSE Append(log, Ev("warn-nokey", idx, Cand, FALSE))
                 /\ keys' = res.keys
                 /\ recp' = ""
                 /\ Continue
            ELSE /\ keys' = KeysAfterLookup(Cand, res)
                 /\ recp' \in Resolve(Cand, keys')
                 /\ log' = warned
                 /\ pc' = "commit"
                 /\ UNCHANGED idx
    /\ UNCHANGED <<cmd, force, recipients, count, notices, stored, result>>
    /\ UNCHANGED updVars
    /\ UNCHANGED expVars

\* the removal warning left out under force
RemovedEventsQuiet(i, r, v, f) ==
    IF f THEN <<Ev("RemoveRecipient", i, v, TRUE)>>
    ELSE <<Ev("RemoveRecipient", i, v, TRUE), Ev("removalWarning", i, r, TRUE)>>

\* what a successful removal does, in order: the store call, then the removal warning
RemovedEvents(i, r, v, f) ==
    <<Ev("RemoveRecipient", i, v, TRUE), Ev("removalWarning", i, r, TRUE)>>

\* the removal warnings among a sequence of events
WarningsIn(evs) == Cardinality({j \in 1..Len(evs) : evs[j].op = "removalWarning"})

\* RecipientsRemove, one candidate: Store.RemoveRecipient, the removal warning, removed++
RemoveCommit ==
    /\ cmd = "remove" /\ pc = "commit"
    /\ \E ok \in BOOLEAN :
         IF ok
         THEN /\ stored' = StoreRemove(stored, recp)
              /\ log' = log \o RemovedEvents(idx, Cand, recp, force)
              /\ count' = count + 1
              /\ notices' = notices + WarningsIn(RemovedEvents(idx, Cand, recp, force))
              /\ Continue
              /\ UNCHANGED result
         ELSE /\ log' = Append(log, Ev("RemoveRecipient", idx, recp, FALSE))
              /\ result' = "ExitRecipients"
              /\ pc' = "done"
              /\ UNCHANGED <<stored, count, notices, idx>>
    /\ UNCHANGED <<cmd, force, recipients, keys, recp>>
    /\ UNCHANGED updVars
    /\ UNCHANGED expVars

\* RecipientsRemove after the loop
RemoveFinish ==
    /\ cmd = "remove" /\ pc = "loop" /\ idx > Len(recipients)
    /\ IF NoneMutated(count)
       THEN result' = "ExitUnknown" /\ UNCHANGED log
       ELSE /\ result' = "ok"
            /\ log' = log \o <<Ev("completed", count, "", TRUE), Ev("sync-hint", count, "", TRUE)>>
    /\ pc' = "done"
    /\ UNCHANGED <<cmd, force, recipients, idx, keys, recp, count, notices, stored>>
    /\ UNCHANGED updVars
    /\ UNCHANGED expVars

\* the command has returned: the process ends, the store stays as it is
Exit ==
    /\ pc = "done"
    /\ cmd' = "none"
    /\ pc' = "idle"
    /\ force' = FALSE
    /\ recipients' = <<>>
    /\ idx' = 1
    /\ keys' = <<>>
    /\ recp' = ""
    /\ count' = 0
    /\ notices' = 0
    /\ log' = <<>>
    /\ result' = ""
    /\ UNCHANGED stored
    /\ UNCHANGED updVars
    /\ UNCHANGED expVars

Next ==
    \/ AddStart
    \/ AddSelect
    \/ AddLookup
    \/ AddConfirm
    \/ AddCommit
    \/ AddFinish
    \/ RemoveStart
    \/ RemoveSelect
    \/ RemoveSelfCheck
    \/ RemoveSelfConfirm
    \/ RemoveLookup
    \/ RemoveCommit
    \/ RemoveFinish
    \/ Exit

Spec == Init /\ [][Next]_vars

\* ------------------------------------------------------- RecipientsUpdate
\* the aliases a sub store can be mounted at; "" is the root
MountAliases == {"teamA", "teamA/sub"}

\* len(alias)
PathLen(a) == CASE a = "" -> 0 [] a = "teamA" -> 5 [] a = "teamA/sub" -> 9

\* the sequences without repetition over the subsets of S
ListsOf(S) ==
    {q \in SeqsOf(S, 0, Cardinality(S)) : \A i, j \in 1..Len(q) : i # j => q[i] # q[j]}

\* sort.Sort(store.ByPathLen(mps)): ascending alias length
RECURSIVE SortByPathLen(_)
SortByPathLen(q) ==
    IF q = <<>> THEN <<>>
    ELSE LET m == CHOOSE i \in 1..Len(q) : \A j \in 1..Len(q) : PathLen(q[i]) <= PathLen(q[j])
         IN <<q[m]>> \o SortByPathLen([k \in 1..(Len(q) - 1) |-> IF k < m THEN q[k] ELSE q[k + 1]])

\* the aliases in the order the loop visits them: the sorted mounts, then the root
VisitOrder(mps) == Append(SortByPathLen(mps), "")

\* the recipient lists a node can hold
ListA == <<"FPR-A1">>
ListB == <<"FPR-A1", "FPR-B2">>
Lists == {ListA, ListB}

\* the checksum recorded for a recipient list
Checksum(l) == IF l = ListA THEN "sha-A" ELSE "sha-B"

\* a node: whether GetSubStore / GetRecipients work, its list, its recorded checksum ("" = none)
NodeStates ==
    [status : {"ok", "unmounted", "ioerror"},
     list : Lists,
     hash : {""} \cup {Checksum(l) : l \in Lists}]

\* s.cfg.GetRecipientHash(alias, idfile)
GetRecipientHash(a) == nodes[a].hash

\* the recorded checksums of all nodes
Hashes == [a \in DOMAIN nodes |-> nodes[a].hash]

\* subs.GetRecipients: the list, and the drift signal when a checksum is recorded and differs
GetRecipients(n) ==
    IF n.status = "ioerror" THEN [list |-> <<>>, err |-> "other"]
    ELSE IF n.hash # "" /\ n.hash # Checksum(n.list)
         THEN [list |-> n.list, err |-> "ErrRecipientChecksumChanged"]
         ELSE [list |-> n.list, err |-> "nil"]

\* subs.SetRecipients succeeded: the list and its checksum are written together
SetRecipients(n, l) == [n EXCEPT !.list = l, !.hash = Checksum(l)]

\* every error of the fetch taken as fatal, the drift signal too
FetchIsFatalAlsoDrift(err) == err # "nil"

\* err != nil && err != sub.ErrRecipientChecksumChanged
FetchIsFatal(err) == err \notin {"nil", "ErrRecipientChecksumChanged"}

\* the test for a recorded checksum inverted
NothingToDoInverted(err, hash) == err = "nil" /\ hash = ""

\* err == nil && GetRecipientHash(...) != ""
NothingToDo(err, hash) == err = "nil" /\ hash # ""

\* the answer ignored
AcceptedAlways(ans) == TRUE

\* termio.AskForConfirmation returned true
Accepted(ans) == ans

\* alias = "<root>" for the root
DisplayAlias(a) == IF a = "" THEN "<root>" ELSE a

\* the alias of the current node
Alias == order[idx]

\* update: every store as the reconcile can find it
InitUpdate ==
    /\ InitRun
    /\ stored = {}
    /\ mounts \in ListsOf(MountAliases)
    /\ nodes \in [{mounts[i] : i \in 1..Len(mounts)} \cup {""} -> NodeStates]
    /\ clock = 1

\* RecipientsUpdate up to the loop
UpdateStart ==
    /\ CanStart
    /\ cmd' = "update"
    /\ pc' = "loop"
    /\ idx' = 1
    /\ count' = 0
    /\ log' = <<>>
    /\ result' = ""
    /\ order' = VisitOrder(mounts)
    /\ fetched' = [list |-> <<>>, err |-> "nil"]
    /\ start' = Hashes
    /\ UNCHANGED <<mounts, nodes, prev>>
    /\ UNCHANGED mutVars
    /\ UNCHANGED expVars

\* one node: GetSubStore, GetRecipients, the checksum test, the list shown
UpdateVisit ==
    /\ cmd = "update" /\ pc = "loop" /\ idx <= Len(order)
    /\ IF nodes[Alias].status = "unmounted"
       THEN /\ log' = Append(log, Ev("unresolved", idx, Alias, FALSE))
            /\ Continue
            /\ UNCHANGED <<fetched, result>>
       ELSE LET got == GetRecipients(nodes[Alias])
            IN /\ fetched' = got
               /\ IF FetchIsFatal(got.err)
                  THEN /\ log' = Append(log, Ev("fetch-error", idx, Alias, FALSE))
                       /\ result' = "error"
                       /\ pc' = "done"
                       /\ UNCHANGED idx
                  ELSE IF NothingToDo(got.err, GetRecipientHash(Alias))
                  THEN /\ log' = Append(log, Ev("current", idx, Alias, TRUE))
                       /\ Continue
                       /\ UNCHANGED result
                  ELSE /\ log' = log \o <<Ev("fetched", idx, Alias, got.err = "nil"),
                                          Ev("show", idx, got.list, TRUE)>>
                       /\ pc' = "confirm"
                       /\ UNCHANGED <<idx, result>>
    /\ UNCHANGED <<cmd, count, mounts, nodes, order, start, prev>>
    /\ UNCHANGED mutVars
    /\ UNCHANGED expVars

\* one node: "Do you trust these recipients for ...?"
UpdateConfirm ==
    /\ cmd = "update" /\ pc = "confirm"
    /\ \E ans \in BOOLEAN :
         /\ log' = Append(log, Ev("confirm", idx, DisplayAlias(Alias), ans))
         /\ IF Accepted(ans)
            THEN pc' = "set" /\ UNCHANGED idx
            ELSE Continue
    /\ UNCHANGED <<cmd, count, result, updVars>>
    /\ UNCHANGED mutVars
    /\ UNCHANGED expVars

\* the root's list is written in place of the list fetched from the node
UpdateSetRootList ==
    /\ cmd = "update" /\ pc = "set"
    /\ \E ok \in BOOLEAN :
         /\ log' = Append(log, Ev("SetRecipients", idx, nodes[""].list, ok))
         /\ IF ok
            THEN /\ nodes' = [nodes EXCEPT ![Alias] = SetRecipients(@, nodes[""].list)]
                 /\ count' = count + 1
                 /\ Continue
                 /\ UNCHANGED result
            ELSE /\ result' = "error"
                 /\ pc' = "done"
                 /\ UNCHANGED <<nodes, count, idx>>
    /\ UNCHANGED <<cmd, mounts, order, fetched, start, prev>>
    /\ UNCHANGED mutVars
    /\ UNCHANGED expVars

\* one node: subs.SetRecipients and changed++
UpdateSet ==
    /\ cmd = "update" /\ pc = "set"
    /\ \E ok \in BOOLEAN :
         /\ log' = Append(log, Ev("SetRecipients", idx, fetched.list, ok))
         /\ IF ok
            THEN /\ nodes' = [nodes EXCEPT ![Alias] = SetRecipients(@, fetched.list)]
                 /\ count' = count + 1
                 /\ Continue
                 /\ UNCHANGED result
            ELSE /\ result' = "error"
                 /\ pc' = "done"
                 /\ UNCHANGED <<nodes, count, idx>>
    /\ UNCHANGED <<cmd, mounts, order, fetched, start, prev>>
    /\ UNCHANGED mutVars
    /\ UNCHANGED expVars

\* a run that changed nothing is reported as a failure
UpdateFinishFailsOnZero ==
    /\ cmd = "update" /\ pc = "loop" /\ idx > Len(order)
    /\ log' = Append(log, Ev(IF count > 0 THEN "Updated" ELSE "Nothing to do", count, "", TRUE))
    /\ result' = IF count > 0 THEN "ok" ELSE "error"
    /\ pc' = "done"
    /\ UNCHANGED <<cmd, idx, count, updVars>>
    /\ UNCHANGED mutVars
    /\ UNCHANGED expVars

\* RecipientsUpdate after the loop: the report
UpdateFinish ==
    /\ cmd = "update" /\ pc = "loop" /\ idx > Len(order)
    /\ log' = Append(log, Ev(IF count > 0 THEN "Updated" ELSE "Nothing to do", count, "", TRUE))
    /\ result' = "ok"
    /\ pc' = "done"
    /\ UNCHANGED <<cmd, idx, count, updVars>>
    /\ UNCHANGED mutVars
    /\ UNCHANGED expVars

\* the indices of the nodes this run asked about
Offered(lg) == {lg[j].i : j \in {k \in 1..Len(lg) : lg[k].op = "confirm"}}

\* every confirmation of this run was declined
AllDeclined(lg) == \A j \in 1..Len(lg) : lg[j].op = "confirm" => ~lg[j].ans

\* the command has returned: the process ends; config and stores stay as they are
UpdateExit ==
    /\ cmd = "update" /\ pc = "done"
    /\ prev' = IF result = "ok" /\ AllDeclined(log)
               THEN [valid |-> TRUE, offered |-> {order[i] : i \in Offered(log)},
                     hashes |-> start, count |-> count]
               ELSE NoPrev
    /\ cmd' = "none"
    /\ pc' = "idle"
    /\ idx' = 1
    /\ count' = 0
    /\ log' = <<>>
    /\ result' = ""
    /\ order' = <<>>
    /\ fetched' = [list |-> <<>>, err |-> "nil"]
    /\ start' = <<>>
    /\ UNCHANGED <<mounts, nodes>>
    /\ UNCHANGED mutVars
    /\ UNCHANGED expVars

NextUpdate ==
    \/ UpdateStart
    \/ UpdateVisit
    \/ UpdateConfirm
    \/ UpdateSet
    \/ UpdateFinish
    \/ UpdateExit

SpecUpdate == InitUpdate /\ [][NextUpdate]_vars

\* ---------------------------------------------- RecipientsPrintExpiration
\* the latest instant of the model; instant 0 is the zero time.Time (no expiration)
MaxTime == 5
\* the largest warn threshold, either way
MaxThreshold == 2
\* time.Hour, in instants
Hour == 2

\* the instants a key can expire at, 0 for never
Expirations == 0..MaxTime

\* the values of --warn-threshold
Thresholds == (0 - MaxThreshold)..MaxThreshold

\* expirationDate.IsZero()
IsZero(t) == t = 0

\* Duration.Truncate(m): rounded toward zero to a multiple of m
Truncate(d, m) == IF d >= 0 THEN (d \div m) * m ELSE 0 - (((0 - d) \div m) * m)

\* the threshold test taken as "not after"
RenderInclusive(exp, thr, n1, n2, n3) ==
    IF ~IsZero(exp) /\ n1 > exp
    THEN [notice |-> [kind |-> "expired at", dur |-> 0, at |-> exp], warn |-> TRUE]
    ELSE IF ~IsZero(exp) /\ exp <= n2 + thr
    THEN [notice |-> [kind |-> "expiring in", dur |-> Truncate(exp - n3, Hour), at |-> exp],
          warn |-> TRUE]
    ELSE [notice |-> [kind |-> "", dur |-> 0, at |-> 0], warn |-> FALSE]

\* renderExpirationNotice; n1, n2, n3 are what time.Now() returns at its three calls
RenderExpirationNotice(exp, thr, n1, n2, n3) ==
    IF ~IsZero(exp) /\ n1 > exp
    THEN [notice |-> [kind |-> "expired at", dur |-> 0, at |-> exp], warn |-> TRUE]
    ELSE IF ~IsZero(exp) /\ exp < n2 + thr
    THEN [notice |-> [kind |-> "expiring in", dur |-> Truncate(exp - n3, Hour), at |-> exp],
          warn |-> TRUE]
    ELSE [notice |-> [kind |-> "", dur |-> 0, at |-> 0], warn |-> FALSE]

\* three readings of a clock that does not run backwards and moves by at most one instant
Readings ==
    {r \in [n1 : clock..MaxTime, n2 : clock..MaxTime, n3 : clock..MaxTime] :
        r.n1 <= r.n2 /\ r.n2 <= r.n3 /\ r.n3 <= clock + 1}

\* what ExpirationDateFromKey can return: an error, or the expiration date
ExpirationResults == [err : {TRUE}, exp : {0}] \cup [err : {FALSE}, exp : Expirations]

\* expiration audit: any time of day
InitExpire ==
    /\ InitRun
    /\ stored = {}
    /\ mounts = <<>>
    /\ nodes = <<>>
    /\ clock \in 1..MaxTime

\* RecipientsPrintExpiration up to the loop
ExpireStart ==
    /\ CanStart
    /\ cmd' = "expire"
    /\ idx' = 1
    /\ count' = 0
    /\ log' = <<>>
    /\ hasErr' = FALSE
    /\ rendered' = NoRender
    /\ \E thr \in Thresholds, nilCrypto \in BOOLEAN, rs \in ListsOf(Fingerprints) :
         /\ threshold' = thr
         /\ IF nilCrypto
            THEN recipients' = <<>> /\ result' = "nil crypto backend" /\ pc' = "done"
            ELSE recipients' = rs /\ result' = "" /\ pc' = "loop"
    /\ UNCHANGED <<force, keys, recp, notices, stored, clock>>
    /\ UNCHANGED updVars

\* a key whose expiration cannot be read is passed over
ExpireStepSkipsErrors ==
    /\ cmd = "expire" /\ pc = "loop" /\ idx <= Len(recipients)
    /\ \E res \in ExpirationResults :
         IF res.err
         THEN /\ log' = Append(log, Ev("ExpirationDateFromKey", idx, 0, FALSE))
              /\ Continue
              /\ UNCHANGED <<result, hasErr, rendered, clock>>
         ELSE \E r \in Readings :
                LET out == RenderExpirationNotice(res.exp, threshold, r.n1, r.n2, r.n3)
                IN /\ rendered' = [called |-> TRUE, i |-> idx, exp |-> res.exp, thr |-> threshold,
                                   n1 |-> r.n1, n2 |-> r.n2, n3 |-> r.n3,
                                   notice |-> out.notice, warn |-> out.warn]
                   /\ clock' = r.n3
                   /\ log' = IF out.warn
                             THEN log \o <<Ev("ExpirationDateFromKey", idx, res.exp, TRUE),
                                           Ev("line", idx, out.notice, TRUE)>>
                             ELSE Append(log, Ev("ExpirationDateFromKey", idx, res.exp, TRUE))
                   /\ hasErr' = (hasErr \/ out.warn)
                   /\ Continue
                   /\ UNCHANGED result
    /\ UNCHANGED <<cmd, count, threshold>>
    /\ UNCHANGED mutVars
    /\ UNCHANGED updVars

\* one recipient: ExpirationDateFromKey, renderExpirationNotice, the line printed
ExpireStep ==
    /\ cmd = "expire" /\ pc = "loop" /\ idx <= Len(recipients)
    /\ \E res \in ExpirationResults :
         IF res.err
         THEN /\ log' = Append(log, Ev("ExpirationDateFromKey", idx, 0, FALSE))
              /\ result' = "lookup-error"
              /\ pc' = "done"
              /\ UNCHANGED <<idx, hasErr, rendered, clock>>
         ELSE \E r \in Readings :
                LET out == RenderExpirationNotice(res.exp, threshold, r.n1, r.n2, r.n3)
                IN /\ rendered' = [called |-> TRUE, i |-> idx, exp |-> res.exp, thr |-> threshold,
                                   n1 |-> r.n1, n2 |-> r.n2, n3 |-> r.n3,
                                   notice |-> out.notice, warn |-> out.warn]
                   /\ clock' = r.n3
                   /\ log' = IF out.warn
                             THEN log \o <<Ev("ExpirationDateFromKey", idx, res.exp, TRUE),
                                           Ev("line", idx, out.notice, TRUE)>>
                             ELSE Append(log, Ev("ExpirationDateFromKey", idx, res.exp, TRUE))
                   /\ hasErr' = (hasErr \/ out.warn)
                   /\ Continue
                   /\ UNCHANGED result
    /\ UNCHANGED <<cmd, count, threshold>>
    /\ UNCHANGED mutVars
    /\ UNCHANGED updVars

\* RecipientsPrintExpiration after the loop
ExpireFinish ==
    /\ cmd = "expire" /\ pc = "loop" /\ idx > Len(recipients)
    /\ result' = IF hasErr THEN "KeysExpiring" ELSE "ok"
    /\ pc' = "done"
    /\ UNCHANGED <<cmd, idx, count, log>>
    /\ UNCHANGED mutVars
    /\ UNCHANGED updVars
    /\ UNCHANGED expVars

\* the command has returned: the process ends, the clock goes on
ExpireExit ==
    /\ cmd = "expire" /\ pc = "done"
    /\ cmd' = "none"
    /\ pc' = "idle"
    /\ idx' = 1
    /\ count' = 0
    /\ log' = <<>>
    /\ result' = ""
    /\ recipients' = <<>>
    /\ threshold' = 0
    /\ hasErr' = FALSE
    /\ rendered' = NoRender
    /\ UNCHANGED <<force, keys, recp, notices, stored, clock>>
    /\ UNCHANGED updVars

NextExpire ==
    \/ ExpireStart
    \/ ExpireStep
    \/ ExpireFinish
    \/ ExpireExit

SpecExpire == InitExpire /\ [][NextExpire]_vars

\* ------------------------------------------------------------------ claims
\* positions of the log
Pos == 1..Len(log)

\* the log entries that are calls of the store
IsStoreCall(e) == e.op \in {"AddRecipient", "RemoveRecipient"}

\* the public-key lookup of the current iteration returned an error
LookupFailed == \E j \in Pos : log[j].op = "warn-lookup"

\* the public-key lookup of the current iteration returned at least one key
Matched == Len(keys) > 0 /\ ~LookupFailed

\* a run of add or remove whose loop ran to its end
LoopEnded ==
    /\ cmd \in {"add", "remove"}
    /\ pc = "done"
    /\ result # "ExitAborted"
    /\ idx > Len(recipients)

\* C1: a run of RecipientsAdd or RecipientsRemove whose loop ends with zero
\* commits returns the "no key added / removed" failure, and a run that
\* returns success has committed at least once.
C1_ZeroCommitsFail ==
    /\ (LoopEnded /\ count = 0) => result = "ExitUnknown"
    /\ (cmd \in {"add", "remove"} /\ result = "ok") => count >= 1

\* C1 witness: a remove of two candidates, none removed, has returned the failure
C1_Witness ==
    /\ LoopEnded /\ cmd = "remove" /\ Len(recipients) = 2
    /\ count = 0 /\ result = "ExitUnknown"

\* C3: every call of the store is preceded, in the same iteration, by a
\* confirmation for the same candidate that was answered yes.
C3_CommitNeedsConfirm ==
    \A j \in Pos :
        IsStoreCall(log[j]) =>
            \E k \in 1..(j - 1) :
                /\ log[k].op = "confirm"
                /\ log[k].ans
                /\ log[k].i = log[j].i

\* C4: a removal of a candidate for which the operator holds a private key is
\* preceded by the self-removal confirmation and then by the standard
\* removal confirmation.
C4_SelfThenStandardConfirm ==
    \A j \in Pos :
        (log[j].op = "RemoveRecipient" /\ log[1].op = "FindPrivateKeys" /\ log[1].v = "some") =>
            \E k1 \in 1..(j - 1), k2 \in 1..(j - 1) :
                /\ k1 < k2
                /\ log[k1].op = "selfconfirm"
                /\ log[k2].op = "confirm"

\* C5 as stated: every value passed to AddRecipient is a canonical fingerprint
\* of a key of the keyring, whatever the force flag.
C5_AlwaysCanonical ==
    \A j \in Pos : log[j].op = "AddRecipient" => log[j].v \in Fingerprints

\* C5 amended: a value passed to AddRecipient is the canonical fingerprint of
\* the first matched key, unless force is set and the lookup matched no key
\* (an empty result or an error).
C5_CanonicalUnlessForced ==
    \A j \in Pos :
        (log[j].op = "AddRecipient" /\ (~force \/ Matched)) =>
            /\ Matched
            /\ keys[1] \in Keys
            /\ log[j].v = KeyFingerprint(keys[1])
            /\ log[j].v \in Fingerprints

\* C5 witness: without force, a fingerprint was added to the store
C5_Witness ==
    /\ cmd = "add" /\ ~force /\ pc = "loop"
    /\ \E j \in Pos : log[j].op = "AddRecipient" /\ log[j].ans /\ log[j].v \in stored

\* C8: in RecipientsRemove the removal warning is printed once for each
\* successful RemoveRecipient, right after it, with and without force, and
\* never for a candidate that was skipped or whose removal failed.
C8_WarningPerRemoval ==
    cmd = "remove" =>
        /\ notices = count
        /\ \A j \in Pos :
              /\ log[j].op = "removalWarning" =>
                    /\ j > 1
                    /\ log[j - 1].op = "RemoveRecipient"
                    /\ log[j - 1].ans
                    /\ log[j - 1].i = log[j].i
              /\ (log[j].op = "RemoveRecipient" /\ log[j].ans) =>
                    /\ j < Len(log)
                    /\ log[j + 1].op = "removalWarning"
              /\ (log[j].op = "RemoveRecipient" /\ ~log[j].ans) => j = Len(log)
        /\ WarningsIn(log) <= 1

\* C8 witness: a forced remove has removed two recipients and warned twice
C8_Witness ==
    /\ cmd = "remove" /\ force /\ pc = "done" /\ result = "ok"
    /\ count = 2 /\ notices = 2

\* C9: when the public-key lookup returns one or more keys, the value passed
\* to AddRecipient / RemoveRecipient is the fingerprint of the first of
\* them, with and without force.
C9_FirstMatchWins ==
    \A j \in Pos :
        (IsStoreCall(log[j]) /\ Matched) => log[j].v = KeyFingerprint(keys[1])

\* C9 witness: the lookup returned two different keys and the store was called
C9_Witness ==
    /\ Matched /\ Len(keys) = 2 /\ keys[1] # keys[2]
    /\ \E j \in Pos : IsStoreCall(log[j]) /\ log[j].ans

\* the log entries that warn about a candidate that matched no key
IsNoKeyWarning(e) == e.op \in {"warn-lookup", "warn-nokey"}

\* C10: in RecipientsAdd without force a candidate that matches no key is
\* warned about once and skipped: no confirmation, no AddRecipient, the loop
\* goes on; the single candidate "alice@example.com" with no matching key
\* ends in the "no key added" failure with nothing added.
C10_UnmatchedSkipped ==
    (cmd = "add" /\ ~force) =>
        /\ pc \in {"confirm", "commit"} => Matched
        /\ \A k \in Pos : log[k].op \in {"confirm", "AddRecipient"} => Matched
        /\ \A j \in Pos :
              IsNoKeyWarning(log[j]) =>
                  /\ j = 1
                  /\ \A k \in Pos : log[k].op \notin {"confirm", "AddRecipient"}
                  /\ idx = log[j].i + 1
                  /\ pc \in {"loop", "done"}
                  /\ result \in {"", "ok", "ExitUnknown"}
        /\ (/\ recipients = <<"alice@example.com">>
            /\ pc = "done"
            /\ Len(log) > 0 /\ IsNoKeyWarning(log[1])) =>
                  /\ result = "ExitUnknown"
                  /\ count = 0
                  /\ Len(log) = 1

\* C10 witness: add of "alice@example.com" alone, no key found, has failed
C10_Witness ==
    /\ cmd = "add" /\ ~force /\ pc = "done"
    /\ recipients = <<"alice@example.com">>
    /\ log = <<Ev("warn-nokey", 1, "alice@example.com", FALSE)>>
    /\ result = "ExitUnknown" /\ count = 0

\* the log entries of update that are about one node (i is its place in order)
IsNodeEvent(e) == e.op \notin {"Updated", "Nothing to do"}

\* C2: in RecipientsUpdate the root node (alias "") is processed no later
\* than the node "teamA".
C2_RootBeforeTeamA ==
    cmd = "update" =>
        \A k \in Pos :
            (IsNodeEvent(log[k]) /\ order[log[k].i] = "teamA") =>
                \E j \in 1..(k - 1) : IsNodeEvent(log[j]) /\ order[log[j].i] = ""

\* the places in order whose list this run has written
Written == {log[j].i : j \in {k \in Pos : log[k].op = "SetRecipients" /\ log[k].ans}}

\* C6: two runs of RecipientsUpdate in a row, every confirmation declined:
\* both count zero changes, SetRecipients is never called, the recorded
\* checksums stay as they were, and the second run offers the nodes the
\* first one offered.
C6_DeclineTwiceChangesNothing ==
    (cmd = "update" /\ pc = "done" /\ result = "ok" /\ AllDeclined(log) /\ prev.valid) =>
        /\ count = 0
        /\ prev.count = 0
        /\ \A j \in Pos : log[j].op # "SetRecipients"
        /\ Hashes = start
        /\ Hashes = prev.hashes
        /\ {order[i] : i \in Offered(log)} = prev.offered

\* C6 witness: the second of two runs that declined everything has offered
\* the same node again
C6_Witness ==
    /\ cmd = "update" /\ pc = "done" /\ result = "ok"
    /\ prev.valid /\ prev.offered # {}
    /\ AllDeclined(log)
    /\ {order[i] : i \in Offered(log)} = prev.offered

\* C7: a node whose fetch succeeds and whose recorded checksum matches its
\* list is not shown, not asked about and not written, and does not count
\* as changed.
C7_CurrentNodeUntouched ==
    cmd = "update" =>
        /\ count = Cardinality(Written)
        /\ \A i \in 1..Len(order) :
              LET n == nodes[order[i]]
              IN (/\ i < idx
                  /\ i \notin Written
                  /\ n.status = "ok"
                  /\ n.hash = Checksum(n.list)) =>
                     /\ \E j \in Pos : log[j].op = "current" /\ log[j].i = i
                     /\ \A j \in Pos :
                           (IsNodeEvent(log[j]) /\ log[j].i = i) => log[j].op = "current"

\* C7 witness: a run has passed over a node whose checksum matches, changing nothing
C7_Witness ==
    /\ cmd = "update" /\ pc = "done" /\ result = "ok" /\ count = 0
    /\ \E j \in Pos : log[j].op = "current" /\ order[log[j].i] = "teamA"

\* the log entries that are calls of the storage layer
IsStorageCall(e) == e.op \in {"AddRecipient", "RemoveRecipient", "SetRecipients"}

C12_ExpiredUpToNow ==
    (rendered.called /\ ~IsZero(rendered.exp) /\ rendered.exp <= rendered.n1) =>
        /\ rendered.warn
        /\ rendered.notice.kind = "expired at"

\* C13 as stated: with expiration >= now + threshold, for every threshold
\* (zero and negative included), renderExpirationNotice does not warn.
C13_NoWarnBeyondThreshold ==
    (rendered.called /\ rendered.exp >= rendered.n2 + rendered.thr) => ~rendered.warn

\* C13 amended: with expiration >= now + threshold and expiration after now,
\* for every threshold (zero and negative included), renderExpirationNotice
\* does not warn and gives no message.
C13_NoWarnBeyondThresholdAndNow ==
    (/\ rendered.called
     /\ rendered.exp >= rendered.n2 + rendered.thr
     /\ rendered.exp > rendered.n2) =>
        /\ ~rendered.warn
        /\ rendered.notice.kind = ""

\* C13 witness: a key that expires exactly at now + threshold, threshold
\* positive, did not warn
C13_Witness ==
    /\ rendered.called /\ rendered.thr > 0
    /\ rendered.exp = rendered.n2 + rendered.thr
    /\ ~rendered.warn

\* the lines the audit printed
Lines == {j \in Pos : log[j].op = "line"}

\* C14: RecipientsPrintExpiration walks the recipients in order; the first
\* expiration lookup that errors ends it with that error, later keys
\* unexamined; without a lookup error it fails with "key(s)
\* expired/expiring" exactly when a key warned, one line per warned key, and
\* succeeds otherwise.
C14_AuditOutcome ==
    cmd = "expire" =>
        /\ \A j \in Pos :
              /\ log[j].op = "ExpirationDateFromKey" =>
                    /\ Cardinality({k \in Pos : log[k].op = "ExpirationDateFromKey"
                                                /\ log[k].i <= log[j].i}) = log[j].i
                    /\ ~log[j].ans =>
                          /\ j = Len(log)
                          /\ pc = "done"
                          /\ result = "lookup-error"
                          /\ idx = log[j].i
              /\ log[j].op = "line" =>
                    /\ j > 1
                    /\ log[j - 1].op = "ExpirationDateFromKey"
                    /\ log[j - 1].ans
                    /\ log[j - 1].i = log[j].i
        /\ hasErr <=> Lines # {}
        /\ rendered.called =>
              (rendered.warn <=> \E j \in Lines : log[j].i = rendered.i /\ log[j].v = rendered.notice)
        /\ result = "lookup-error" => (Len(log) > 0 /\ ~log[Len(log)].ans)
        /\ (pc = "done" /\ result \notin {"lookup-error", "nil crypto backend"}) =>
              /\ idx = Len(recipients) + 1
              /\ result = IF Lines # {} THEN "KeysExpiring" ELSE "ok"

\* C14 witness: two keys were examined, the first warned, the second did not,
\* and the audit has failed with "key(s) expired/expiring"
C14_Witness ==
    /\ cmd = "expire" /\ pc = "done" /\ result = "KeysExpiring"
    /\ Len(recipients) = 2
    /\ Cardinality(Lines) = 1
    /\ \E j \in Lines : log[j].i = 1

\* the node an entry of the update log is about
NodeOf(e) == nodes[order[e.i]]

\* the entries of the update log about the node at place i with operation op
EventsAt(i, op) == {j \in Pos : log[j].op = op /\ log[j].i = i}

\* C15: in RecipientsUpdate a fetch error other than the drift signal ends
\* the run with that error at once: the node is not shown or prompted for,
\* no later node is visited and no report is printed; checksum drift alone
\* never ends the run.
C15_FetchErrorEndsRun ==
    cmd = "update" =>
        /\ \A j \in Pos :
              /\ log[j].op = "fetch-error" =>
                    /\ j = Len(log)
                    /\ pc = "done"
                    /\ result = "error"
                    /\ idx = log[j].i
                    /\ fetched.err \notin {"nil", "ErrRecipientChecksumChanged"}
                    /\ NodeOf(log[j]).status = "ioerror"
                    /\ \A k \in Pos : k # j => (IsNodeEvent(log[k]) /\ log[k].i < log[j].i)
              /\ log[j].op \in {"current", "fetched", "show", "confirm", "SetRecipients"} =>
                    NodeOf(log[j]).status = "ok"
              /\ log[j].op = "fetched" =>
                    /\ j < Len(log)
                    /\ log[j + 1].op = "show"
                    /\ log[j + 1].i = log[j].i
        /\ (pc = "done" /\ result = "error") =>
              /\ Len(log) > 0
              /\ log[Len(log)].op \in {"fetch-error", "SetRecipients"}
              /\ ~log[Len(log)].ans

\* C15 witness: the run went on after a drifted node, which was shown and
\* prompted for, and ended on a later node whose fetch failed otherwise
C15_Witness ==
    /\ cmd = "update" /\ pc = "done" /\ result = "error"
    /\ log[Len(log)].op = "fetch-error"
    /\ \E j \in Pos :
          /\ log[j].op = "fetched" /\ ~log[j].ans
          /\ EventsAt(log[j].i, "confirm") # {}

\* C16: in RecipientsUpdate each node with checksum drift or no recorded
\* checksum gets exactly one confirmation, for its whole list, and the list
\* shown and the list passed to SetRecipients are the list that fetch
\* returned.
C16_OnePromptWholeList ==
    cmd = "update" =>
        /\ (pc \in {"confirm", "set"}) =>
              /\ EventsAt(idx, "show") # {}
              /\ \A j \in EventsAt(idx, "show") : log[j].v = fetched.list
        /\ pc = "confirm" <=> (Len(log) > 0 /\ log[Len(log)].op = "show")
        /\ \A j \in Pos :
              /\ log[j].op = "current" =>
                    /\ start[order[log[j].i]] # ""
                    /\ start[order[log[j].i]] = Checksum(NodeOf(log[j]).list)
              /\ log[j].op = "fetched" =>
                    /\ \/ start[order[log[j].i]] = ""
                       \/ start[order[log[j].i]] # Checksum(log[j + 1].v)
                    /\ log[j].ans <=> start[order[log[j].i]] = ""
                    /\ Cardinality(EventsAt(log[j].i, "fetched")) = 1
                    /\ Cardinality(EventsAt(log[j].i, "show")) = 1
                    /\ Cardinality(EventsAt(log[j].i, "confirm")) <= 1
                    /\ j + 2 <= Len(log) =>
                          /\ log[j + 2].op = "confirm"
                          /\ log[j + 2].i = log[j].i
              /\ log[j].op = "show" =>
                    /\ log[j].v = NodeOf(log[j]).list
                    /\ log[j - 1].op = "fetched"
              /\ log[j].op = "confirm" => log[j - 1].op = "show"
              /\ log[j].op = "SetRecipients" =>
                    /\ log[j - 1].op = "confirm"
                    /\ log[j - 1].ans
                    /\ log[j - 1].i = log[j].i
                    /\ log[j - 2].op = "show"
                    /\ log[j - 2].v = log[j].v

\* C16 witness: two nodes were prompted for, one drifted and one without a
\* checksum, and the list written to the second is not the root's
C16_Witness ==
    /\ cmd = "update"
    /\ \E j, k \in Pos :
          /\ log[j].op = "fetched" /\ ~log[j].ans /\ EventsAt(log[j].i, "confirm") # {}
          /\ log[k].op = "SetRecipients" /\ log[k].ans /\ log[k].i # log[j].i
          /\ start[order[log[k].i]] = ""
          /\ log[k].v # nodes[""].list

\* C17: a RecipientsUpdate that ends without a fatal error has counted
\* exactly the nodes whose confirmation was accepted and whose SetRecipients
\* succeeded, and returns success whatever the count, zero included; nodes
\* that could not be resolved or were declined count for nothing.
C17_CountIsAcceptedAndSet ==
    cmd = "update" =>
        /\ count = Cardinality(Written)
        /\ Written = {i \in 1..Len(order) :
                        /\ \E j \in EventsAt(i, "confirm") : log[j].ans
                        /\ \E j \in EventsAt(i, "SetRecipients") : log[j].ans}
        /\ (pc = "loop" /\ idx > Len(order)) => result = ""
        /\ pc = "done" =>
              /\ Len(log) > 0
              /\ result = "ok" <=> ~IsNodeEvent(log[Len(log)])
              /\ result = "ok" =>
                    /\ log[Len(log)].i = count
                    /\ log[Len(log)].op = (IF count > 0 THEN "Updated" ELSE "Nothing to do")
                    /\ \A j \in Pos : IsNodeEvent(log[j]) => log[j].ans \/ log[j].op \in {"unresolved", "confirm", "fetched"}

\* C17 witness: a run over an unresolvable node and a declined node has
\* ended in success with a count of zero
C17_Witness ==
    /\ cmd = "update" /\ pc = "done" /\ result = "ok" /\ count = 0
    /\ \E j, k \in Pos :
          /\ log[j].op = "unresolved"
          /\ log[k].op = "confirm" /\ ~log[k].ans

\* C17 witness, the other way: a count of two after three nodes
C17_WitnessCounted ==
    /\ cmd = "update" /\ pc = "done" /\ result = "ok" /\ count = 2
    /\ Len(order) = 3

\* the key lookup of the current candidate matched no key
ZeroMatches == LookupFailed \/ keys = <<>>

\* C18: in RecipientsAdd and RecipientsRemove under force a candidate whose
\* key lookup matches nothing (an empty result or an error) is not skipped,
\* and the value carried to the confirmation and the commit is the input
\* itself, unchanged.
C18_ForcedInputUnchanged ==
    (cmd \in {"add", "remove"} /\ force) =>
        /\ \A j \in Pos : log[j].op # "warn-nokey"
        /\ (pc \in {"confirm", "commit"} /\ ZeroMatches) => recp = Cand
        /\ \A j \in Pos :
              (log[j].op \in {"confirm", "AddRecipient", "RemoveRecipient"} /\ ZeroMatches) =>
                  log[j].v = recipients[log[j].i]

\* the completion notice or the sync hint is in the log
Completed(lg) == \E j \in 1..Len(lg) : lg[j].op \in {"completed", "sync-hint"}

\* C19: in RecipientsAdd and RecipientsRemove a storage failure on a later
\* candidate leaves the earlier commits in the store and the count as they
\* are, returns the recipients failure and not "no key added/removed", and
\* prints neither the completion notice nor the sync hint; the store changes
\* only by a commit that succeeded.
C19_NoRollbackOnStorageFailure ==
    [][/\ (cmd \in {"add", "remove"} /\ pc = "commit" /\ pc' = "done") =>
             /\ stored' = stored
             /\ count' = count
             /\ result' = "ExitRecipients"
             /\ ~Completed(log')
             /\ ~log'[Len(log')].ans
       /\ (stored' # stored \/ count' > count) =>
             /\ pc = "commit"
             /\ count' = count + 1
             /\ IsStoreCall(log'[Len(log) + 1])
             /\ log'[Len(log) + 1].ans
       /\ (pc' = "done" /\ result' = "ExitRecipients") => pc = "commit"
       /\ Completed(log') => result' = "ok"]_vars

\* C19 witness: the second candidate's AddRecipient failed after the first
\* was committed
C19_Witness ==
    /\ cmd = "add" /\ pc = "done" /\ result = "ExitRecipients"
    /\ idx = 2 /\ count = 1
    /\ stored # {}
    /\ ~Completed(log)

\* the self-removal part of one iteration of RecipientsRemove, as the log shows it
SelfRemovalLog ==
    (cmd = "remove" /\ Len(log) > 0) =>
        /\ log[1].op = "FindPrivateKeys"
        /\ log[1].v = "err" <=> ~log[1].ans
        /\ \A j \in Pos : log[j].op = "selfconfirm" => (j = 2 /\ log[j].v = recipients[log[j].i])
        /\ Len(log) = 1 => (pc = "selfconfirm" <=> log[1].v = "some")
        /\ pc = "lookup" => (Len(log) = 1 \/ (Len(log) = 2 /\ log[2].op = "selfconfirm" /\ log[2].ans))
        /\ Len(log) > 1 => (log[2].op = "selfconfirm" <=> log[1].v = "some")
        /\ (Len(log) > 1 /\ log[2].op = "selfconfirm" /\ ~log[2].ans) =>
              \A j \in Pos : j > 2 => log[j].op \in {"completed", "sync-hint"}

\* C20: RecipientsRemove asks the self-removal question exactly when
\* FindPrivateKeys on the raw candidate returns no error and a key; a
\* decline skips the candidate with no RemoveRecipient, no notice and no
\* count; after a FindPrivateKeys error the removal goes on unasked.
C20_SelfRemovalAsked ==
    [][/\ SelfRemovalLog'
       /\ (cmd = "remove" /\ pc = "selfconfirm" /\ pc' # "lookup") =>
             /\ pc' = "loop"
             /\ idx' = idx + 1
             /\ ~log'[2].ans
             /\ stored' = stored
             /\ count' = count
             /\ notices' = notices
       /\ (cmd = "remove" /\ pc = "loop" /\ pc' = "lookup") =>
             log'[1].v \in {"err", "none"}]_vars

\* C20 witness: a removal was committed after FindPrivateKeys failed, with no
\* self-removal question
C20_Witness ==
    /\ cmd = "remove" /\ Len(log) > 1
    /\ log[1].v = "err"
    /\ \E j \in Pos : log[j].op = "RemoveRecipient" /\ log[j].ans

\* C20 witness, the decline: the self-removal question was declined and the
\* run ended with nothing removed
C20_WitnessDeclined ==
    /\ cmd = "remove" /\ pc = "done" /\ result = "ExitUnknown"
    /\ Len(log) = 2 /\ log[2].op = "selfconfirm" /\ ~log[2].ans
====
